---- MODULE Spec2Model ----
(***************************************************************************)
(* hika: a multi-axis chess-like move generator.  The model follows the    *)
(* Game class: the dense board (layout), the occupancy index (pois), the   *)
(* rule dictionary (pieceDict), the recursive path evaluator, the          *)
(* king-safety filter with its snapshot / restore, and the move cache.     *)
(*                                                                         *)
(* Objects.  A Piece is a JavaScript object.  The board cell holds the     *)
(* piece's current value; an index entry holds the value of the object it  *)
(* references plus the bit `live`, which is TRUE exactly when that object  *)
(* is the very object stored in the board cell at the entry's position     *)
(* (pois[i].piece === layout[pos]).  JSON.parse(JSON.stringify(layout))    *)
(* creates new objects for every cell, so an index entry that survives a   *)
(* restore references an object the board no longer holds (live = FALSE).  *)
(***************************************************************************)
EXTENDS Integers, Sequences, FiniteSets, TLC

\* ------------------------------------------------------------------ Vec
Vec(x, y, z, w) == [x |-> x, y |-> y, z |-> z, w |-> w]

add(a, v) == Vec(a.x + v.x, a.y + v.y, a.z + v.z, a.w + v.w)

equals(a, v) == a.x = v.x /\ a.y = v.y /\ a.z = v.z /\ a.w = v.w

serialize(vec) ==
    ToString(vec.x) \o "," \o ToString(vec.y) \o "," \o ToString(vec.z) \o "," \o ToString(vec.w)

\* ---------------------------------------------------------------- Piece
\* The null occupant of a cell (a value of the same shape as a piece, so that
\* cells compare with =).
Null == [id |-> "null", team |-> -1, flags |-> {}]

Piece(id, team, flags) == [id |-> id, team |-> team, flags |-> flags]

\* A move: source and destination (the reserved `int` list is never generated).
Move(src, dst) == [src |-> src, dst |-> dst]

\* Absent repeat / attack budget (null in the stats object).
Unset == -1

\* Number.POSITIVE_INFINITY as a repeat count: larger than any ray on a board
\* of the modelled sizes, so the loop always ends by leaving the board.
Infinity == 1000

\* ------------------------------------------------------ rule dictionary
Dir(x, y, z, w) == [direction |-> Vec(x, y, z, w)]

Ref(id) == [ref |-> id]

rook ==
    << [repeat |-> Infinity, attack |-> 1, branches |-> <<
        Dir(1,0,0,0), Dir(-1,0,0,0), Dir(0,1,0,0), Dir(0,-1,0,0),
        Dir(0,0,1,0), Dir(0,0,-1,0), Dir(0,0,0,1), Dir(0,0,0,-1) >>] >>

bishop ==
    << [repeat |-> Infinity, attack |-> 1, branches |-> <<
        Dir(1,1,0,0), Dir(1,-1,0,0), Dir(-1,1,0,0), Dir(-1,-1,0,0),
        Dir(1,0,1,0), Dir(1,0,-1,0), Dir(-1,0,1,0), Dir(-1,0,-1,0),
        Dir(1,0,0,1), Dir(1,0,0,-1), Dir(-1,0,0,1), Dir(-1,0,0,-1),
        Dir(0,1,1,0), Dir(0,1,-1,0), Dir(0,-1,1,0), Dir(0,-1,-1,0),
        Dir(0,1,0,1), Dir(0,1,0,-1), Dir(0,-1,0,1), Dir(0,-1,0,-1),
        Dir(0,0,1,1), Dir(0,0,1,-1), Dir(0,0,-1,1), Dir(0,0,-1,-1) >>] >>

\* Variant of queen that moves like a rook only.
queenLikeRook == << [branches |-> << Ref("R") >>] >>

queen == << [branches |-> << Ref("R"), Ref("B") >>] >>

\* Variant of knight that leaps towards higher files only.
knightRightOnly ==
    << [repeat |-> 1, attack |-> 1, branches |-> <<
        Dir(2,1,0,0), Dir(1,2,0,0), Dir(2,-1,0,0), Dir(1,-2,0,0) >>] >>

knight ==
    << [repeat |-> 1, attack |-> 1, branches |-> <<
        Dir(2,1,0,0), Dir(1,2,0,0), Dir(-2,1,0,0), Dir(-1,2,0,0),
        Dir(2,-1,0,0), Dir(1,-2,0,0), Dir(-2,-1,0,0), Dir(-1,-2,0,0),
        Dir(2,0,1,0), Dir(1,0,2,0), Dir(-2,0,1,0), Dir(-1,0,2,0),
        Dir(2,0,-1,0), Dir(1,0,-2,0), Dir(-2,0,-1,0), Dir(-1,0,-2,0),
        Dir(2,0,0,1), Dir(1,0,0,2), Dir(-2,0,0,1), Dir(-1,0,0,2),
        Dir(2,0,0,-1), Dir(1,0,0,-2), Dir(-2,0,0,-1), Dir(-1,0,0,-2),
        Dir(0,2,1,0), Dir(0,1,2,0), Dir(0,-2,1,0), Dir(0,-1,2,0),
        Dir(0,2,-1,0), Dir(0,1,-2,0), Dir(0,-2,-1,0), Dir(0,-1,-2,0),
        Dir(0,2,0,1), Dir(0,1,0,2), Dir(0,-2,0,1), Dir(0,-1,0,2),
        Dir(0,2,0,-1), Dir(0,1,0,-2), Dir(0,-2,0,-1), Dir(0,-1,0,-2),
        Dir(0,0,2,1), Dir(0,0,1,2), Dir(0,0,-2,1), Dir(0,0,-1,2),
        Dir(0,0,2,-1), Dir(0,0,1,-2), Dir(0,0,-2,-1), Dir(0,0,-1,-2) >>] >>

pawn ==
    << [repeat |-> 1, condition |-> << [team |-> 0] >>, branches |-> <<
          [direction |-> Vec(0,1,0,0), attack |-> 0],
          [direction |-> Vec(0,0,0,1), attack |-> 0],
          [direction |-> Vec(1,1,0,0), attack |-> 1,
           condition |-> << [enemy |-> Vec(0,0,0,0)] >>],
          [direction |-> Vec(-1,1,0,0), attack |-> 1,
           condition |-> << [enemy |-> Vec(0,0,0,0)] >>],
          [direction |-> Vec(0,2,0,0), attack |-> 0,
           condition |-> << [flag |-> 0],
                            [inverted |-> TRUE, piece |-> Vec(0,-1,0,0)] >>],
          [direction |-> Vec(1,1,0,0), attack |-> 1,
           condition |-> << [flag |-> 1] >>],
          [direction |-> Vec(-1,1,0,0), attack |-> 1,
           condition |-> << [flag |-> 2] >>] >>],
       [repeat |-> 1, condition |-> << [team |-> 1] >>, branches |-> <<
          [direction |-> Vec(0,-1,0,0), attack |-> 0],
          [direction |-> Vec(0,0,0,-1), attack |-> 0],
          [direction |-> Vec(1,-1,0,0), attack |-> 1,
           condition |-> << [enemy |-> Vec(0,0,0,0)] >>],
          [direction |-> Vec(-1,-1,0,0), attack |-> 1,
           condition |-> << [enemy |-> Vec(0,0,0,0)] >>],
          [direction |-> Vec(0,-2,0,0), attack |-> 0,
           condition |-> << [flag |-> 0],
                            [inverted |-> TRUE, piece |-> Vec(0,1,0,0)] >>],
          [direction |-> Vec(1,-1,0,0), attack |-> 1,
           condition |-> << [flag |-> 1] >>],
          [direction |-> Vec(-1,-1,0,0), attack |-> 1,
           condition |-> << [flag |-> 2] >>] >>] >>

king == << [repeat |-> 1, attack |-> 1, branches |-> << Ref("Q") >>] >>

\* The dictionary built by initPieceDict: piece-type id -> pathTree.
initPieceDict ==
    [id \in {"R", "B", "Q", "N", "P", "K"} |->
        CASE id = "R" -> rook
          [] id = "B" -> bishop
          [] id = "Q" -> queen
          [] id = "N" -> knight
          [] id = "P" -> pawn
          [] id = "K" -> king]

\* ---------------------------------------------------------------- board
\* A game value g carries the fields of a Game object:
\*   size, layout (cell -> piece or Null), pois, pieceDict, cache.
Has(f, field) == field \in DOMAIN f

\* Variant of isInBounds that takes the first file for off the board.
isInBoundsPastZero(g, pos) ==
    /\ pos.x > 0 /\ pos.x < g.size.x
    /\ pos.y >= 0 /\ pos.y < g.size.y
    /\ pos.z >= 0 /\ pos.z < g.size.z
    /\ pos.w >= 0 /\ pos.w < g.size.w

isInBounds(g, pos) ==
    /\ pos.x >= 0 /\ pos.x < g.size.x
    /\ pos.y >= 0 /\ pos.y < g.size.y
    /\ pos.z >= 0 /\ pos.z < g.size.z
    /\ pos.w >= 0 /\ pos.w < g.size.w

\* getPiece on an in-bounds position (callers model the OutOfBounds throw).
getPiece(g, pos) == g.layout[pos]

\* The cells of a board of the given size: forPiece's visiting order is w, z, y, x.
Cells(size) ==
    { Vec(x, y, z, w) : x \in 0..(size.x - 1), y \in 0..(size.y - 1),
                        z \in 0..(size.z - 1), w \in 0..(size.w - 1) }

\* `let v = e; body`: e is evaluated once and body reads the value.
Let(v, Body(_)) == Body(v)

\* -------------------------------------------------------- evaluatePath
\* One condition of a path node, after its own inversion bit.
conditionResult(g, piece, pos, path, con) ==
    LET d == IF Has(path, "direction") THEN path.direction ELSE Vec(0,0,0,0)
        r1 == ~(Has(con, "team") /\ piece.team # con.team)
        r2 == r1 /\ ~(Has(con, "flag") /\ con.flag \notin piece.flags)
        r3 == r2 /\ ~(Has(con, "piece") /\
                 LET loc == add(add(pos, con.piece), d)
                 IN  ~isInBounds(g, loc) \/ getPiece(g, loc) = Null)
        r4 == r3 /\ ~(Has(con, "enemy") /\
                 LET loc == add(add(pos, con.enemy), d)
                 IN  IF isInBounds(g, loc)
                     THEN LET view == getPiece(g, loc)
                          IN  view = Null \/ view.team = piece.team
                     ELSE TRUE)
    IN  IF Has(con, "inverted") /\ con.inverted THEN ~r4 ELSE r4

\* Variant of conditionsHold that is satisfied by one condition that holds.
conditionsHoldAny(g, piece, pos, path) ==
    IF Has(path, "condition")
    THEN \E i \in 1..Len(path.condition) :
            conditionResult(g, piece, pos, path, path.condition[i])
    ELSE TRUE

\* The condition loop: the node returns [] at the first failing condition.
conditionsHold(g, piece, pos, path) ==
    IF Has(path, "condition")
    THEN \A i \in 1..Len(path.condition) :
            conditionResult(g, piece, pos, path, path.condition[i])
    ELSE TRUE

\* Variant of inheritStats in which a node's own budgets replace inherited ones.
inheritStatsOverride(path, stats) ==
    [repeat |-> IF Has(path, "repeat") /\ path.repeat >= 1
                THEN path.repeat ELSE stats.repeat,
     attack |-> IF Has(path, "attack") /\ path.attack >= 0
                THEN path.attack ELSE stats.attack]

\* The in-place update of the stats object: a budget set by an ancestor stays.
inheritStats(path, stats) ==
    [repeat |-> IF stats.repeat = Unset /\ Has(path, "repeat") /\ path.repeat >= 1
                THEN path.repeat ELSE stats.repeat,
     attack |-> IF stats.attack = Unset /\ Has(path, "attack") /\ path.attack >= 0
                THEN path.attack ELSE stats.attack]

\* The stats object as evaluatePath leaves it for its caller: updated only if
\* the condition loop did not return early.
statsAfter(g, piece, pos, path, stats) ==
    IF conditionsHold(g, piece, pos, path) THEN inheritStats(path, stats) ELSE stats

\* Variant of leafLoop whose ray passes over an ally instead of ending there.
RECURSIVE leafLoopOverAllies(_, _, _, _, _, _, _, _)
leafLoopOverAllies(g, piece, pos, path, stats, loc0, count, atkCount) ==
    IF count >= stats.repeat THEN << >>
    ELSE LET loc == add(loc0, path.direction)
         IN  IF ~isInBounds(g, loc) THEN << >>
             ELSE LET view == getPiece(g, loc)
                  IN  IF view = Null
                      THEN << Move(pos, loc) >> \o
                           leafLoopOverAllies(g, piece, pos, path, stats, loc, count + 1,
                                              atkCount)
                      ELSE IF view.team = piece.team
                           THEN leafLoopOverAllies(g, piece, pos, path, stats, loc,
                                                   count + 1, atkCount)
                      ELSE IF atkCount + 1 = stats.attack
                           THEN << Move(pos, loc) >>
                           ELSE << Move(pos, loc) >> \o
                                leafLoopOverAllies(g, piece, pos, path, stats, loc,
                                                   count + 1, atkCount + 1)

\* The leaf loop, from iteration `count` with the ray at `loc`.
RECURSIVE leafLoop(_, _, _, _, _, _, _, _)
leafLoop(g, piece, pos, path, stats, loc0, count, atkCount) ==
    IF count >= stats.repeat THEN << >>
    ELSE LET loc == add(loc0, path.direction)
         IN  IF ~isInBounds(g, loc) THEN << >>
             ELSE LET view == getPiece(g, loc)
                  IN  IF view = Null
                      THEN << Move(pos, loc) >> \o
                           leafLoop(g, piece, pos, path, stats, loc, count + 1, atkCount)
                      ELSE IF view.team = piece.team THEN << >>
                      ELSE IF atkCount + 1 = stats.attack
                           THEN << Move(pos, loc) >>
                           ELSE << Move(pos, loc) >> \o
                                leafLoop(g, piece, pos, path, stats, loc, count + 1,
                                         atkCount + 1)

\* The concatenation f[lo] \o ... \o f[hi] of a family of move lists.
RECURSIVE concatRange(_, _, _)
concatRange(f, lo, hi) ==
    IF lo > hi THEN << >>
    ELSE IF lo = hi THEN f[lo]
    ELSE concatRange(f, lo, (lo + hi) \div 2) \o concatRange(f, (lo + hi) \div 2 + 1, hi)

RECURSIVE evaluatePath(_, _, _, _, _)
RECURSIVE treeLoop(_, _, _, _, _, _)

\* The loop over the root alternatives of a referenced type: every alternative
\* receives the same statsCopy object, which each call may update in place.
treeLoop(g, piece, pos, tree, j, statsCopy) ==
    IF j > Len(tree) THEN << >>
    ELSE evaluatePath(g, piece, pos, tree[j], statsCopy) \o
         treeLoop(g, piece, pos, tree, j + 1,
                  statsAfter(g, piece, pos, tree[j], statsCopy))

\* The moves one iteration of the loop over path.branches concatenates to
\* `moves`: each branch starts from its own copy of the node's stats.
branchMoves(g, piece, pos, branch, stats) ==
    IF Has(branch, "ref")
    THEN treeLoop(g, piece, pos, g.pieceDict[branch.ref], 1, stats)
    ELSE evaluatePath(g, piece, pos, branch, stats)

\* Variant of branchLoop in which the first branch short-circuits the others.
branchLoopFirstOnly(g, piece, pos, path, stats) ==
    IF \E i \in 1..Len(path.branches) :
          Has(path.branches[i], "ref") /\ path.branches[i].ref = piece.id
    THEN << >>
    ELSE branchMoves(g, piece, pos, path.branches[1], stats)

\* The loop over path.branches.  Reaching a reference to the piece's own type
\* returns [] from the whole node, dropping what earlier branches produced.
branchLoop(g, piece, pos, path, stats) ==
    IF \E i \in 1..Len(path.branches) :
          Has(path.branches[i], "ref") /\ path.branches[i].ref = piece.id
    THEN << >>
    ELSE concatRange([i \in 1..Len(path.branches) |->
                         branchMoves(g, piece, pos, path.branches[i], stats)],
                     1, Len(path.branches))

evaluatePath(g, piece, pos, path, stats0) ==
    IF ~conditionsHold(g, piece, pos, path) THEN << >>
    ELSE LET stats == inheritStats(path, stats0)
         IN  IF Has(path, "direction")
             THEN IF stats.repeat = Unset \/ stats.attack = Unset THEN << >>
                  ELSE leafLoop(g, piece, pos, path, stats, pos, 0, 0)
             ELSE IF Has(path, "branches")
                  THEN branchLoop(g, piece, pos, path, stats)
                  ELSE << >>

\* ------------------------------------------- exceptions of evaluatePath
\* pieceDict.get(branch)!.pathTree for a type the dictionary does not hold.
MissingReference == "TypeError: Cannot read properties of undefined"

\* The recursion through type references never returns: the engine ends it.
StackExhausted == "RangeError: Maximum call stack size exceeded"

\* A call of the loop over a referenced type's root alternatives: the type and
\* the stats object it starts with.  Piece, square and board are those of the
\* whole evaluation, so a call nested in a call with the same frame repeats it.
Frame(id, stats) == [id |-> id, stats |-> stats]

\* The loop over path.branches ended at a reference to the piece's own type.
Returned == "return"

RECURSIVE pathError(_, _, _, _, _, _)
RECURSIVE treeError(_, _, _, _, _, _, _)
RECURSIVE branchesError(_, _, _, _, _, _, _, _)

\* The error the loop over a referenced type's root alternatives raises ("" for
\* none), from alternative j on.
treeError(g, piece, pos, tree, j, statsCopy, chain) ==
    IF j > Len(tree) THEN ""
    ELSE Let(pathError(g, piece, pos, tree[j], statsCopy, chain), LAMBDA e :
             IF e # "" THEN e
             ELSE treeError(g, piece, pos, tree, j + 1,
                            statsAfter(g, piece, pos, tree[j], statsCopy), chain))

\* What one iteration of the loop over path.branches ends with: "" when it
\* completes, Returned at a reference to the piece's own type, or the error.
branchError(g, piece, pos, branch, stats, chain) ==
    IF Has(branch, "ref")
    THEN IF branch.ref = piece.id THEN Returned
         ELSE IF branch.ref \notin DOMAIN g.pieceDict THEN MissingReference
         ELSE IF Frame(branch.ref, stats) \in chain THEN StackExhausted
         ELSE treeError(g, piece, pos, g.pieceDict[branch.ref], 1, stats,
                        chain \cup { Frame(branch.ref, stats) })
    ELSE pathError(g, piece, pos, branch, stats, chain)

\* What the iterations lo..hi of the loop over path.branches end with: that of
\* the first iteration that does not complete (split in halves to keep the
\* evaluation shallow).
branchesError(g, piece, pos, path, stats, lo, hi, chain) ==
    IF lo > hi THEN ""
    ELSE IF lo = hi THEN branchError(g, piece, pos, path.branches[lo], stats, chain)
    ELSE Let(branchesError(g, piece, pos, path, stats, lo, (lo + hi) \div 2, chain),
             LAMBDA e :
                 IF e # "" THEN e
                 ELSE branchesError(g, piece, pos, path, stats, (lo + hi) \div 2 + 1, hi,
                                    chain))

\* The error evaluatePath raises for a node ("" when it returns); chain holds
\* the frames of the reference loops the call is nested in.
pathError(g, piece, pos, path, stats0, chain) ==
    IF ~conditionsHold(g, piece, pos, path) THEN ""
    ELSE IF Has(path, "direction") THEN ""
    ELSE IF Has(path, "branches")
         THEN Let(branchesError(g, piece, pos, path, inheritStats(path, stats0),
                                1, Len(path.branches), chain),
                  LAMBDA e : IF e = Returned THEN "" ELSE e)
         ELSE ""

\* The error the loop of getMoves over the root alternatives raises.
RECURSIVE rootError(_, _, _, _, _)
rootError(g, piece, pos, tree, j) ==
    IF j > Len(tree) THEN ""
    ELSE Let(pathError(g, piece, pos, tree[j], [repeat |-> Unset, attack |-> Unset], {}),
             LAMBDA e : IF e # "" THEN e ELSE rootError(g, piece, pos, tree, j + 1))

\* The loop of getMoves over the root alternatives, each with fresh stats.
RECURSIVE rootLoop(_, _, _, _, _)
rootLoop(g, piece, pos, tree, j) ==
    IF j > Len(tree) THEN << >>
    ELSE evaluatePath(g, piece, pos, tree[j], [repeat |-> Unset, attack |-> Unset]) \o
         rootLoop(g, piece, pos, tree, j + 1)

\* ------------------------------------------------------ occupancy index
\* An index entry {pos, piece}; live: the entry's piece object is the object the
\* board holds at pos.
Poi(pos, piece, live) == [pos |-> pos, piece |-> piece, live |-> live]

RemoveAt(seq, i) == SubSeq(seq, 1, i - 1) \o SubSeq(seq, i + 1, Len(seq))

\* for (i = 0; i < pois.length; i++) if (pois[i].pos.equals(pos)) pois.splice(i, 1):
\* after a splice the index still advances.
RECURSIVE spliceLoop(_, _, _)
spliceLoop(pois, pos, i) ==
    IF i > Len(pois) THEN pois
    ELSE IF equals(pois[i].pos, pos)
         THEN spliceLoop(RemoveAt(pois, i), pos, i + 1)
         ELSE spliceLoop(pois, pos, i + 1)

\* Variant of removePoi that leaves the index as it is.
removePoiNothing(pois, pos) == pois

removePoi(pois, pos) == spliceLoop(pois, pos, 1)

setPiecePoi(pois, pos, piece) ==
    IF piece # Null
    THEN Append(spliceLoop(pois, pos, 1), Poi(pos, piece, TRUE))
    ELSE spliceLoop(pois, pos, 1)

\* The object a cell held is no longer in that cell: entries at pos that still
\* reference it are no longer live.
unlink(pois, pos) ==
    [i \in 1..Len(pois) |->
        IF equals(pois[i].pos, pos) THEN [pois[i] EXCEPT !.live = FALSE] ELSE pois[i]]

\* The object in cell pos was mutated in place: live entries at pos show its
\* new value.
touch(pois, pos, piece) ==
    [i \in 1..Len(pois) |->
        IF equals(pois[i].pos, pos) /\ pois[i].live
        THEN [pois[i] EXCEPT !.piece = piece] ELSE pois[i]]

\* ----------------------------------------------------------------- cache
\* The cache Map as a set of entries [key, moves], one per key.
EmptyCache == {}

cacheHas(cache, key) == \E e \in cache : e.key = key

\* Variant of cacheGet that finds an entry but loses its moves.
cacheGetNothing(cache, key) == << >>

cacheGet(cache, key) == (CHOOSE e \in cache : e.key = key).moves

\* Variant of cacheSet that keeps the new entry only.
cacheSetAlone(cache, key, moves) == { [key |-> key, moves |-> moves] }

cacheSet(cache, key, moves) ==
    { e \in cache : e.key # key } \cup { [key |-> key, moves |-> moves] }

clearCache(g) == [g EXCEPT !.cache = EmptyCache]

\* -------------------------------------------------------------- results
\* The outcome of a call: the game as the call leaves it, the value returned
\* (when err = "") or the error raised.
OutOfBounds == "Cannot access out of bounds position"

MissingRule == "Piece dictionary does not contain piece type"

Ret(g, ret) == [g |-> g, ret |-> ret, err |-> ""]

Throw(g, err) == [g |-> g, ret |-> Null, err |-> err]

\* The public getPiece(pos): the occupant, or the OutOfBounds throw.
getPieceCall(g, pos) ==
    IF isInBounds(g, pos) THEN Ret(g, getPiece(g, pos)) ELSE Throw(g, OutOfBounds)

\* ---------------------------------------------------------------- forPiece
\* Variant of visit that takes the third loop variable for w and the fourth for z.
visitAxesSwapped(g, x, y, z, w) ==
    [loc |-> Vec(x, y, w, z), piece |-> getPiece(g, Vec(x, y, w, z))]

\* One call of the callback: fn(new Vec(x, y, z, w), getPiece(loc)).
visit(g, x, y, z, w) ==
    [loc |-> Vec(x, y, z, w), piece |-> getPiece(g, Vec(x, y, z, w))]

\* The four nested loops of forPiece; each returns the calls of the callback it
\* makes, in order.  The arrays of the layout have the lengths of size, so the
\* length tests of the loop conditions hold whenever the bound tests do.
RECURSIVE xLoop(_, _, _, _, _)
xLoop(g, x, y, z, w) ==
    IF x < g.size.x THEN << visit(g, x, y, z, w) >> \o xLoop(g, x + 1, y, z, w) ELSE << >>

RECURSIVE yLoop(_, _, _, _)
yLoop(g, y, z, w) ==
    IF y < g.size.y THEN xLoop(g, 0, y, z, w) \o yLoop(g, y + 1, z, w) ELSE << >>

RECURSIVE zLoop(_, _, _)
zLoop(g, z, w) ==
    IF z < g.size.z THEN yLoop(g, 0, z, w) \o zLoop(g, z + 1, w) ELSE << >>

RECURSIVE wLoop(_, _)
wLoop(g, w) ==
    IF w < g.size.w THEN zLoop(g, 0, w) \o wLoop(g, w + 1) ELSE << >>

\* forPiece(fn) with a callback that records its arguments.
forPiece(g) == Ret(g, wLoop(g, 0))

\* ------------------------------------------------------------- mutators
\* Variant of setPieceLayout that forgets to empty a cell.
setPieceLayoutKeepsOccupant(layout0, pos, piece) ==
    IF piece = Null THEN layout0 ELSE [layout0 EXCEPT ![pos] = piece]

\* setPieceLayout on an in-bounds position: the layout with the cell replaced.
setPieceLayout(layout0, pos, piece) == [layout0 EXCEPT ![pos] = piece]

setPiece(g0, pos, piece) ==
    LET g == clearCache(g0)
    IN  IF ~isInBounds(g, pos) THEN Throw(g, OutOfBounds)
        ELSE LET target == getPiece(g, pos)
                 p1 == unlink(g.pois, pos)
             IN  Ret([g EXCEPT !.layout = setPieceLayout(g.layout, pos, piece),
                               !.pois = IF piece # Null THEN removePoi(p1, pos)
                                        ELSE setPiecePoi(p1, pos, piece)],
                     target)

\* Variant of firstMoveDone that leaves the flags alone.
firstMoveKept(piece) == piece

\* piece.flags = [] when the moved piece carries flag 0 ("hacky workaround").
firstMoveDone(piece) ==
    IF piece # Null /\ 0 \in piece.flags THEN [piece EXCEPT !.flags = {}] ELSE piece

move(g0, mov, clear) ==
    LET g == IF clear THEN clearCache(g0) ELSE g0
    IN  IF ~isInBounds(g, mov.src) THEN Throw(g, OutOfBounds)
        ELSE LET piece == getPiece(g, mov.src)
                 g1 == [g EXCEPT !.layout = setPieceLayout(g.layout, mov.src, Null)]
             IN  IF ~isInBounds(g, mov.dst)
                 THEN Throw([g1 EXCEPT !.pois = unlink(g.pois, mov.src)], OutOfBounds)
                 ELSE LET target == getPiece(g1, mov.dst)
                          moved == firstMoveDone(piece)
                          p1 == touch(g.pois, mov.src, moved)
                          p2 == IF equals(mov.src, mov.dst) THEN p1
                                ELSE unlink(unlink(p1, mov.src), mov.dst)
                          p3 == setPiecePoi(p2, mov.dst, moved)
                          p4 == removePoi(p3, mov.src)
                      IN  Ret([g1 EXCEPT
                                   !.layout = setPieceLayout(g1.layout, mov.dst, moved),
                                   !.pois = p4],
                              target)

\* -------------------------------------------------------------- queries
RECURSIVE getMoves(_, _, _)
RECURSIVE putsKingInCheck(_, _, _)
RECURSIVE getMovesForTeam(_, _, _)
RECURSIVE teamLoop(_, _, _, _, _, _)
RECURSIVE filterLoop(_, _, _, _, _)

\* for (let poi of this.getPois()) over the copy taken when the loop starts:
\* the iterations lo..hi in order, each on the game the one before left, split
\* in halves to keep the evaluation shallow.
teamLoop(g, snapshot, lo, hi, team, kingCheck) ==
    IF lo > hi THEN Ret(g, << >>)
    ELSE IF lo = hi
         THEN IF snapshot[lo].piece.team = team
              THEN getMoves(g, snapshot[lo].pos, kingCheck)
              ELSE Ret(g, << >>)
    ELSE Let(teamLoop(g, snapshot, lo, (lo + hi) \div 2, team, kingCheck), LAMBDA a :
             IF a.err # "" THEN a
             ELSE Let(teamLoop(a.g, snapshot, (lo + hi) \div 2 + 1, hi, team, kingCheck),
                      LAMBDA b : IF b.err # "" THEN b ELSE Ret(b.g, a.ret \o b.ret)))

getMovesForTeam(g, team, kingCheck) ==
    teamLoop(g, g.pois, 1, Len(g.pois), team, kingCheck)

\* poisClone as it is when it is restored: the array copied before the
\* simulated move, holding the same (old) piece objects.  The object that stood
\* at mov.src was mutated by move meanwhile, and the restored board (a JSON
\* copy) holds none of these objects.
poisClone(pois0, mov, piece) ==
    LET t == touch(pois0, mov.src, firstMoveDone(piece))
    IN  [i \in 1..Len(t) |-> [t[i] EXCEPT !.live = FALSE]]

\* Variant of kingSquares that collects the other team's kings.
kingSquaresOfOpponent(pois0, team) ==
    { pois0[i].pos : i \in { j \in 1..Len(pois0) :
                               pois0[j].piece.id = "K" /\ pois0[j].piece.team # team } }

\* The squares of the index entries that hold a king of the team.
kingSquares(pois0, team) ==
    { pois0[i].pos : i \in { j \in 1..Len(pois0) :
                               pois0[j].piece.id = "K" /\ pois0[j].piece.team = team } }

\* Variant of restore that puts back the index only.
restoreIndexOnly(g, layoutClone, poisCopy) == [g EXCEPT !.pois = poisCopy]

\* this.layout = layoutClone; this.pois = poisClone
restore(g, layoutClone, poisCopy) ==
    [g EXCEPT !.layout = layoutClone, !.pois = poisCopy]

\* Variant of putsKingInCheck that leaves the simulated move applied.
putsKingInCheckNoRollback(g, mov, team) ==
    IF ~isInBounds(g, mov.src) THEN Throw(g, OutOfBounds)
    ELSE IF getPiece(g, mov.src) = Null THEN Ret(g, FALSE)
    ELSE Let(move(g, mov, FALSE), LAMBDA m :
         IF m.err # "" THEN m
         ELSE Let(getMovesForTeam(m.g, IF team # 0 THEN 0 ELSE 1, FALSE), LAMBDA t :
              IF t.err # "" THEN t
              ELSE Ret(t.g, \E i \in 1..Len(t.ret) :
                                \E k \in kingSquares(m.g.pois, team) :
                                    equals(k, t.ret[i].dst))))

putsKingInCheck(g, mov, team) ==
    IF ~isInBounds(g, mov.src) THEN Throw(g, OutOfBounds)
    ELSE LET piece == getPiece(g, mov.src)
             layoutClone == g.layout
         IN  IF piece = Null THEN Ret(g, FALSE)
             ELSE Let(move(g, mov, FALSE), LAMBDA m :
                  IF m.err # "" THEN m
                  ELSE Let(getMovesForTeam(m.g, IF team # 0 THEN 0 ELSE 1, FALSE), LAMBDA t :
                       IF t.err # "" THEN t
                       ELSE Ret(restore(t.g, layoutClone, poisClone(g.pois, mov, piece)),
                                \E i \in 1..Len(t.ret) :
                                    \E k \in kingSquares(m.g.pois, team) :
                                        equals(k, t.ret[i].dst))))

\* The king-check loop of getMoves over the candidates lo..hi in order, each
\* tested on the game the test before left; ret is the list of those kept.
filterLoop(g, moves, lo, hi, team) ==
    IF lo > hi THEN Ret(g, << >>)
    ELSE IF lo = hi
         THEN Let(putsKingInCheck(g, moves[lo], team), LAMBDA r :
                  IF r.err # "" THEN r
                  ELSE Ret(r.g, IF ~r.ret THEN << moves[lo] >> ELSE << >>))
    ELSE Let(filterLoop(g, moves, lo, (lo + hi) \div 2, team), LAMBDA a :
             IF a.err # "" THEN a
             ELSE Let(filterLoop(a.g, moves, (lo + hi) \div 2 + 1, hi, team),
                      LAMBDA b : IF b.err # "" THEN b ELSE Ret(b.g, a.ret \o b.ret)))

getMoves(g, pos, kingCheck) ==
    IF ~isInBounds(g, pos) THEN Throw(g, OutOfBounds)
    ELSE LET piece == getPiece(g, pos)
         IN  IF piece = Null THEN Ret(g, << >>)
             ELSE IF piece.id \notin DOMAIN g.pieceDict THEN Throw(g, MissingRule)
             ELSE IF kingCheck /\ cacheHas(g.cache, serialize(pos))
                  THEN Ret(g, cacheGet(g.cache, serialize(pos)))
             ELSE IF rootError(g, piece, pos, g.pieceDict[piece.id], 1) # ""
                  THEN Throw(g, rootError(g, piece, pos, g.pieceDict[piece.id], 1))
             ELSE Let(rootLoop(g, piece, pos, g.pieceDict[piece.id], 1), LAMBDA moves :
                  IF kingCheck
                  THEN Let(filterLoop(g, moves, 1, Len(moves), piece.team), LAMBDA f :
                           IF f.err # "" THEN f
                           ELSE Ret([f.g EXCEPT !.cache =
                                        cacheSet(f.g.cache, serialize(pos), f.ret)],
                                    f.ret))
                  ELSE Ret(g, moves))

\* Variant of validIn that compares the source only.
validInBySource(r, mov) ==
    IF r.err # "" THEN r
    ELSE Ret(r.g, \E i \in 1..Len(r.ret) : equals(r.ret[i].src, mov.src))

\* isValidMove after its call of getMoves, whose outcome is r.
validIn(r, mov) ==
    IF r.err # "" THEN r
    ELSE Ret(r.g, \E i \in 1..Len(r.ret) :
                     equals(r.ret[i].src, mov.src) /\ equals(r.ret[i].dst, mov.dst))

isValidMove(g, mov, kingCheck) == validIn(getMoves(g, mov.src, kingCheck), mov)

\* moveIfValid after its call of isValidMove, whose outcome is v.  ret is the
\* captured piece (or Null) of an applied move; valid = FALSE stands for the
\* `false` returned for an invalid move.
applyIfValid(v, mov) ==
    IF v.err # "" THEN [v EXCEPT !.ret = Null] @@ [valid |-> FALSE]
    ELSE IF v.ret THEN move(v.g, mov, TRUE) @@ [valid |-> TRUE]
    ELSE Ret(v.g, Null) @@ [valid |-> FALSE]

moveIfValid(g, mov) == applyIfValid(isValidMove(g, mov, TRUE), mov)

\* ---------------------------------------------------------- constructor
\* parseInt of one character of a row: the digit's value, 0 standing for both
\* "0" and NaN (either is falsy in `if (skip)`).
parseInt(ch) ==
    CASE ch = "1" -> 1 [] ch = "2" -> 2 [] ch = "3" -> 3 [] ch = "4" -> 4
      [] ch = "5" -> 5 [] ch = "6" -> 6 [] ch = "7" -> 7 [] ch = "8" -> 8
      [] ch = "9" -> 9 [] OTHER -> 0

toUpperCase(ch) ==
    CASE ch = "r" -> "R" [] ch = "b" -> "B" [] ch = "q" -> "Q" [] ch = "n" -> "N"
      [] ch = "p" -> "P" [] ch = "k" -> "K" [] ch = "x" -> "X"
      [] ch = "a" -> "A" [] ch = "c" -> "C" [] ch = "d" -> "D" [] ch = "e" -> "E"
      [] ch = "f" -> "F" [] ch = "g" -> "G" [] ch = "m" -> "M" [] ch = "s" -> "S"
      [] ch = "t" -> "T" [] OTHER -> ch

\* Variant of newPiece that gives no piece a flag.
newPieceNoFlags(pid) ==
    Piece(toUpperCase(pid), IF pid = toUpperCase(pid) THEN 0 ELSE 1, {})

\* The piece the constructor creates for a letter of the layout.
newPiece(pid) ==
    Piece(toUpperCase(pid),
          IF pid = toUpperCase(pid) THEN 0 ELSE 1,
          CASE toUpperCase(pid) = "P" -> {0}
            [] toUpperCase(pid) = "K" -> {1, 2}
            [] OTHER -> {})

RECURSIVE pushNulls(_, _, _)
pushNulls(yLayer, skip, sizeX) ==
    IF skip = 0 \/ Len(yLayer) >= sizeX THEN yLayer
    ELSE pushNulls(Append(yLayer, Null), skip - 1, sizeX)

\* The x loop of the constructor over the characters of one row (x is 0-based).
RECURSIVE rowLoop(_, _, _, _)
rowLoop(xInput, x, yLayer, sizeX) ==
    IF Len(yLayer) >= sizeX THEN yLayer
    ELSE IF x + 1 > Len(xInput)
         THEN rowLoop(xInput, x + 1, Append(yLayer, Null), sizeX)
         ELSE LET pid == xInput[x + 1]
                  skip == parseInt(pid)
              IN  IF skip # 0
                  THEN rowLoop(xInput, x + 1, pushNulls(yLayer, skip, sizeX), sizeX)
                  ELSE rowLoop(xInput, x + 1, Append(yLayer, newPiece(pid)), sizeX)

\* The characters of row y of z-layer z of w-layer w of the layout body (the
\* body after its split on "|", "/", "," and ""); [] when the input has none.
rowInput(body, w, z, y) ==
    IF w + 1 <= Len(body)
    THEN IF z + 1 <= Len(body[w + 1])
         THEN IF y + 1 <= Len(body[w + 1][z + 1])
              THEN body[w + 1][z + 1][y + 1]
              ELSE << >>
         ELSE << >>
    ELSE << >>

\* The cells in forPiece's order: w outermost, then z, then y, then x.
cellSeq(size) ==
    [n \in 1..(size.x * size.y * size.z * size.w) |->
        Vec((n - 1) % size.x,
            ((n - 1) \div size.x) % size.y,
            ((n - 1) \div (size.x * size.y)) % size.z,
            (n - 1) \div (size.x * size.y * size.z))]

\* Variant of Game in which a built-in rule wins over a custom rule of its id.
GameDefaultsFirst(input, customPieceDict) ==
    LET size == input.size
        layout == [c \in Cells(size) |->
                      rowLoop(rowInput(input.body, c.w, c.z, c.y), 0, << >>, size.x)[c.x + 1]]
        occupied == SelectSeq(cellSeq(size), LAMBDA c : layout[c] # Null)
    IN  [size |-> size,
         layout |-> layout,
         pois |-> [i \in 1..Len(occupied) |-> Poi(occupied[i], layout[occupied[i]], TRUE)],
         pieceDict |-> initPieceDict @@ customPieceDict,
         cache |-> EmptyCache]

\* new Game(input, customPieceDict)
Game(input, customPieceDict) ==
    LET size == input.size
        layout == [c \in Cells(size) |->
                      rowLoop(rowInput(input.body, c.w, c.z, c.y), 0, << >>, size.x)[c.x + 1]]
        occupied == SelectSeq(cellSeq(size), LAMBDA c : layout[c] # Null)
    IN  [size |-> size,
         layout |-> layout,
         pois |-> [i \in 1..Len(occupied) |-> Poi(occupied[i], layout[occupied[i]], TRUE)],
         pieceDict |-> customPieceDict @@ initPieceDict,
         cache |-> EmptyCache]

\* ------------------------------------------------------------ the state
VARIABLES
    size,       \* Game.size
    layout,     \* Game.layout: cell -> piece or Null
    pois,       \* Game.pois: the occupancy index
    pieceDict,  \* Game.pieceDict
    cache,      \* Game.cache
    last,       \* the last call: its name, arguments and outcome
    used,       \* history: the names of the operations called so far
    raised,     \* history: TRUE once a call has raised
    ops         \* number of calls made so far

vars == << size, layout, pois, pieceDict, cache, last, used, raised, ops >>

\* Number of calls explored after construction.
MaxOps == 2

\* The game object in the current state.
G == [size |-> size, layout |-> layout, pois |-> pois,
      pieceDict |-> pieceDict, cache |-> cache]

SetGame(g) ==
    /\ size' = g.size
    /\ layout' = g.layout
    /\ pois' = g.pois
    /\ pieceDict' = g.pieceDict
    /\ cache' = g.cache

NoCall ==
    [op |-> "new", src |-> Vec(0,0,0,0), dst |-> Vec(0,0,0,0), piece |-> Null,
     team |-> 0, kingCheck |-> FALSE, err |-> "",
     retPiece |-> Null, retMoves |-> << >>, retBool |-> FALSE, retVisits |-> << >>]

\* Layout inputs of the constructor on a 2 x 3 x 1 x 1 board (rows y = 0, 1, 2).
Board(rows) == [size |-> Vec(2, 3, 1, 1), body |-> << << rows >> >>]

InitInputs ==
    { Board(<< <<"K", "1">>, <<"R", "1">>, <<"r", "k">> >>),
      Board(<< <<"P", "K">>, <<"2">>, <<"k", "p">> >>),
      Board(<< <<"P", "R">>, <<"1", "x">>, <<"2">> >>),
      Board(<< <<"N", "Q">>, <<"2">>, <<"b", "k">> >>) }

\* Coordinates callers pass: every cell and one position off the board.
OutPos(sz) == Vec(sz.x, 0, 0, 0)

Coords == Cells(size) \cup { OutPos(size) }

\* Positions passed to getPiece and setPiece: every cell and one position off
\* the board on each side that the bounds test examines.
Probes ==
    Coords \cup { Vec(-1, 0, 0, 0), Vec(0, size.y, 0, 0),
                  Vec(0, 0, size.z, 0), Vec(0, 0, 0, size.w) }

\* Pieces callers place with setPiece (null removes).
PieceInputs == { Null, Piece("R", 1, {}) }

Init ==
    /\ \E input \in InitInputs : \E g \in { Game(input, << >>) } :
          /\ size = g.size
          /\ layout = g.layout
          /\ pois = g.pois
          /\ pieceDict = g.pieceDict
          /\ cache = g.cache
    /\ last = NoCall
    /\ used = {}
    /\ raised = FALSE
    /\ ops = 0

Step(r, call) ==
    /\ ops' = ops + 1
    /\ SetGame(r.g)
    /\ last' = [call EXCEPT !.err = r.err]
    /\ used' = used \cup { call.op }
    /\ raised' = (raised \/ r.err # "")

GetPiece(pos) ==
    /\ ops < MaxOps
    /\ \E r \in { getPieceCall(G, pos) } :
        Step(r, [NoCall EXCEPT !.op = "getPiece", !.src = pos, !.retPiece = r.ret])

SetPiece(pos, piece) ==
    /\ ops < MaxOps
    /\ \E r \in { setPiece(G, pos, piece) } :
        Step(r, [NoCall EXCEPT !.op = "setPiece", !.src = pos, !.piece = piece,
                               !.retPiece = r.ret])

MoveCall(src, dst) ==
    /\ ops < MaxOps
    /\ \E r \in { move(G, Move(src, dst), TRUE) } :
        Step(r, [NoCall EXCEPT !.op = "move", !.src = src, !.dst = dst,
                               !.retPiece = r.ret])

\* The calls moveIfValid({src, dst}) for every dst: getMoves(src) runs the same
\* for each of them and is evaluated once.
MoveIfValid(src) ==
    /\ ops < MaxOps
    /\ \E q \in { getMoves(G, src, TRUE) } :
        \E dst \in Coords :
          \E r \in { applyIfValid(validIn(q, Move(src, dst)), Move(src, dst)) } :
              Step(r, [NoCall EXCEPT !.op = "moveIfValid", !.src = src, !.dst = dst,
                                     !.kingCheck = TRUE,
                                     !.retPiece = r.ret, !.retBool = r.valid])

\* The calls isValidMove({src, dst}, kingCheck) for every dst.
IsValidMove(src, kingCheck) ==
    /\ ops < MaxOps
    /\ \E q \in { getMoves(G, src, kingCheck) } :
        \E dst \in Coords :
          \E r \in { validIn(q, Move(src, dst)) } :
              Step(r, [NoCall EXCEPT !.op = "isValidMove", !.src = src, !.dst = dst,
                                     !.kingCheck = kingCheck,
                                     !.retBool = (r.err = "" /\ r.ret)])

GetMoves(pos, kingCheck) ==
    /\ ops < MaxOps
    /\ \E r \in { getMoves(G, pos, kingCheck) } :
        Step(r, [NoCall EXCEPT !.op = "getMoves", !.src = pos, !.kingCheck = kingCheck,
                               !.retMoves = IF r.err = "" THEN r.ret ELSE << >>])

GetMovesForTeam(team, kingCheck) ==
    /\ ops < MaxOps
    /\ \E r \in { getMovesForTeam(G, team, kingCheck) } :
        Step(r, [NoCall EXCEPT !.op = "getMovesForTeam", !.team = team,
                               !.kingCheck = kingCheck,
                               !.retMoves = IF r.err = "" THEN r.ret ELSE << >>])

Next ==
    \/ \E pos \in Probes : GetPiece(pos)
    \/ \E pos \in Probes, piece \in PieceInputs : SetPiece(pos, piece)
    \/ \E src \in Coords, dst \in Coords : MoveCall(src, dst)
    \/ \E src \in Coords : MoveIfValid(src)
    \/ \E src \in Coords, kingCheck \in BOOLEAN : IsValidMove(src, kingCheck)
    \/ \E pos \in Coords, kingCheck \in BOOLEAN : GetMoves(pos, kingCheck)
    \/ \E team \in {0, 1}, kingCheck \in BOOLEAN : GetMovesForTeam(team, kingCheck)

Spec == Init /\ [][Next]_vars

\* ------------------------------------------------- the 8 x 8 boards
\* The constructor's default input: the standard chess start.
DefaultInput ==
    [size |-> Vec(8, 8, 1, 1),
     body |-> << << << <<"R", "N", "B", "Q", "K", "B", "N", "R">>,
                       <<"P", "P", "P", "P", "P", "P", "P", "P">>,
                       <<"8">>, <<"8">>, <<"8">>, <<"8">>,
                       <<"p", "p", "p", "p", "p", "p", "p", "p">>,
                       <<"r", "n", "b", "q", "k", "b", "n", "r">> >> >> >>]

\* The layout "8,8,1,1 5rk1,1N3ppp,8,2q5,1B6,4RP2,4Q1PP,5RK1" of the tests.
Game1Input ==
    [size |-> Vec(8, 8, 1, 1),
     body |-> << << << <<"5", "r", "k", "1">>,
                       <<"1", "N", "3", "p", "p", "p">>,
                       <<"8">>,
                       <<"2", "q", "5">>,
                       <<"1", "B", "6">>,
                       <<"4", "R", "P", "2">>,
                       <<"4", "Q", "1", "P", "P">>,
                       <<"5", "R", "K", "1">> >> >> >>]

StdInputs == { DefaultInput, Game1Input }

\* The squares the tests call with: the knight b1 and the pawn a2 of the default
\* start.
KnightPos == Vec(1, 0, 0, 0)

PawnPos == Vec(0, 1, 0, 0)

StdSrcs == { KnightPos, PawnPos }

InitStd ==
    /\ \E input \in StdInputs : \E g \in { Game(input, << >>) } :
          /\ size = g.size
          /\ layout = g.layout
          /\ pois = g.pois
          /\ pieceDict = g.pieceDict
          /\ cache = g.cache
    /\ last = NoCall
    /\ used = {}
    /\ raised = FALSE
    /\ ops = 0

\* On the 8 x 8 boards calls are explored after construction and after an
\* applied move.
StdTurn == last.op = "new" \/ (last.op = "moveIfValid" /\ last.retBool)

NextStd ==
    \/ \E team \in {0, 1} : StdTurn /\ GetMovesForTeam(team, TRUE)
    \/ \E pos \in StdSrcs : StdTurn /\ GetMoves(pos, TRUE)
    \/ \E kingCheck \in BOOLEAN : StdTurn /\ IsValidMove(KnightPos, kingCheck)
    \/ \E src \in StdSrcs : StdTurn /\ MoveIfValid(src)

SpecStd == InitStd /\ [][NextStd]_vars

\* ------------------------------------------- boards with custom rules
\* Rules a caller supplies as customPieceDict:
\*   S slides along y and may capture two pieces on a ray;
\*   T steps up to twice along y with attack 0;
\*   A lists a reference to its own type between two steps;
\*   C and D reference each other, E references C;
\*   M references a type no dictionary holds;
\*   F has two root alternatives, one step along x and a slide along y;
\*   G is a single reference to F;
\*   N replaces the built-in knight by a single step along x.
CustomRules ==
    [id \in {"S", "T", "A", "C", "D", "E", "M", "F", "G", "N"} |->
        CASE id = "S" -> << [repeat |-> Infinity, attack |-> 2,
                             branches |-> << Dir(0,1,0,0) >>] >>
          [] id = "T" -> << [repeat |-> 2, attack |-> 0, direction |-> Vec(0,1,0,0)] >>
          [] id = "A" -> << [repeat |-> 1, attack |-> 1,
                             branches |-> << Dir(0,1,0,0), Ref("A"), Dir(1,1,0,0) >>] >>
          [] id = "C" -> << [repeat |-> 1, attack |-> 1,
                             branches |-> << Dir(1,0,0,0), Ref("D") >>] >>
          [] id = "D" -> << [branches |-> << Ref("C") >>] >>
          [] id = "E" -> << [branches |-> << Ref("C") >>] >>
          [] id = "M" -> << [branches |-> << Ref("Z") >>] >>
          [] id = "F" -> << [repeat |-> 1, attack |-> 1, direction |-> Vec(1,0,0,0)],
                            [repeat |-> Infinity, attack |-> 1,
                             direction |-> Vec(0,1,0,0)] >>
          [] id = "G" -> << [branches |-> << Ref("F") >>] >>
          [] id = "N" -> << [repeat |-> 1, attack |-> 1, direction |-> Vec(1,0,0,0)] >>]

\* "2,3,1,1 AS,1p,Ep"
RulesInput1 ==
    [size |-> Vec(2, 3, 1, 1),
     body |-> << << << <<"A", "S">>, <<"1", "p">>, <<"E", "p">> >> >> >>]

\* "2,4,1,1 TM,p1,2,Ck"
RulesInput2 ==
    [size |-> Vec(2, 4, 1, 1),
     body |-> << << << <<"T", "M">>, <<"p", "1">>, <<"2">>, <<"C", "k">> >> >> >>]

\* "2,2,2,2 R1,1b/2,Q1|2,2/1p,1k": a board with two z-layers and two w-layers.
RulesInput3 ==
    [size |-> Vec(2, 2, 2, 2),
     body |-> << << << <<"R", "1">>, <<"1", "b">> >>, << <<"2">>, <<"Q", "1">> >> >>,
                 << << <<"2">>, <<"2">> >>, << <<"1", "p">>, <<"1", "k">> >> >> >>]

\* "2,3,1,1 FG,2,1f"
RulesInput4 ==
    [size |-> Vec(2, 3, 1, 1),
     body |-> << << << <<"F", "G">>, <<"2">>, <<"1", "f">> >> >> >>]

\* "2,3,1,1 Rr,mB,2"
RulesInput5 ==
    [size |-> Vec(2, 3, 1, 1),
     body |-> << << << <<"R", "r">>, <<"m", "B">>, <<"2">> >> >> >>]

RulesInputs == { RulesInput1, RulesInput2, RulesInput3, RulesInput4, RulesInput5 }

InitRules ==
    /\ \E input \in RulesInputs : \E g \in { Game(input, CustomRules) } :
          /\ size = g.size
          /\ layout = g.layout
          /\ pois = g.pois
          /\ pieceDict = g.pieceDict
          /\ cache = g.cache
    /\ last = NoCall
    /\ used = {}
    /\ raised = FALSE
    /\ ops = 0

ForPiece ==
    /\ ops < MaxOps
    /\ \E r \in { forPiece(G) } :
        Step(r, [NoCall EXCEPT !.op = "forPiece", !.retVisits = r.ret])

\* On these boards move is called for the occupied cells.
NextRules ==
    \/ \E pos \in Coords, kingCheck \in BOOLEAN : GetMoves(pos, kingCheck)
    \/ \E src \in Cells(size), dst \in Cells(size) :
          layout[src] # Null /\ MoveCall(src, dst)
    \/ ForPiece

SpecRules == InitRules /\ [][NextRules]_vars

\* ------------------------------------ boards with caller-placed pieces
\* Pieces a caller places with setPiece: Piece.flags is any list of numbers.
\* A pawn with the first-move flag and the flag 1 its capture rule tests, a
\* pawn with flag 1 only, and a knight carrying flag 3.
FlaggedPieces == { Piece("P", 0, {0, 1}), Piece("P", 1, {1}), Piece("N", 0, {3}) }

\* "2,3,1,1 PK,2,kp"
FlagsInput == Board(<< <<"P", "K">>, <<"2">>, <<"k", "p">> >>)

InitFlags ==
    /\ \E g \in { Game(FlagsInput, CustomRules) } :
          /\ size = g.size
          /\ layout = g.layout
          /\ pois = g.pois
          /\ pieceDict = g.pieceDict
          /\ cache = g.cache
    /\ last = NoCall
    /\ used = {}
    /\ raised = FALSE
    /\ ops = 0

NextFlags ==
    \/ \E pos \in Cells(size), piece \in FlaggedPieces : SetPiece(pos, piece)
    \/ \E src \in Cells(size), dst \in Cells(size) : MoveCall(src, dst)
    \/ \E pos \in Cells(size), kingCheck \in BOOLEAN : GetMoves(pos, kingCheck)

SpecFlags == InitFlags /\ [][NextFlags]_vars

\* =================================================================== claims
Queries == { "getMoves", "getMovesForTeam", "isValidMove" }

OccupiedCells == { c \in Cells(size) : layout[c] # Null }

BoardPairs == { [pos |-> c, piece |-> layout[c]] : c \in OccupiedCells }

IndexPairs == { [pos |-> pois[i].pos, piece |-> pois[i].piece] : i \in 1..Len(pois) }

\* The index holds exactly one entry per occupied cell, each referencing the
\* piece the board holds there.
IndexMirrorsBoard ==
    /\ IndexPairs = BoardPairs
    /\ Len(pois) = Cardinality(OccupiedCells)
    /\ \A i \in 1..Len(pois) : pois[i].live

Positions(p) == [i \in 1..Len(p) |-> p[i].pos]

Contents(p) == [i \in 1..Len(p) |-> [pos |-> p[i].pos, piece |-> p[i].piece]]

HasFlag0(piece) == piece # Null /\ 0 \in piece.flags

\* C1: after any sequence of setPiece and move calls with in-bounds coordinates
\* the (position, piece) pairs of the occupancy index are exactly the pairs found
\* by scanning the board for non-null occupants.
C1_IndexMirrorsBoard ==
    (used \subseteq {"setPiece", "move"} /\ ~raised) => IndexMirrorsBoard

\* C2: a king-checked query that returns normally leaves every board cell with
\* the same occupant (id, team, flags) and the index with the same positions in
\* the same order.
C2_QueryLeavesBoard ==
    [][ (last'.op \in Queries /\ last'.kingCheck /\ last'.err = "")
          => (layout' = layout /\ Positions(pois') = Positions(pois)) ]_vars

\* C2 witness: a king-checked getMoves returned moves for a piece that still
\* carries the first-move flag (its moves were simulated and rolled back).
C2_Witness ==
    /\ last.op = "getMoves" /\ last.kingCheck /\ last.err = ""
    /\ last.src \in Cells(size)
    /\ HasFlag0(layout[last.src])
    /\ Len(last.retMoves) > 0

\* C3: when a query raises after a move was simulated, board and index are
\* restored to their contents before the query.
C3_RollbackOnError ==
    [][ (last'.op \in Queries \cup {"moveIfValid"} /\ last'.err # "")
          => (layout' = layout /\ Contents(pois') = Contents(pois)) ]_vars

\* The squares of the board that hold a king of the team.
KingsOnBoard(g, team) ==
    { c \in Cells(g.size) :
        g.layout[c] # Null /\ g.layout[c].id = "K" /\ g.layout[c].team = team }

\* Some piece of another team has a candidate move (king-check disabled) onto a
\* square holding a king of the team.
KingCapturable(g, team) ==
    \E c \in Cells(g.size) :
        /\ g.layout[c] # Null
        /\ g.layout[c].team # team
        /\ Let(getMoves(g, c, FALSE), LAMBDA r :
               /\ r.err = ""
               /\ \E i \in 1..Len(r.ret) : r.ret[i].dst \in KingsOnBoard(g, team))

LeavesKingCapturable(m, team) == KingCapturable(move(G, m, TRUE).g, team)

OnlyLegalMoves == used \subseteq (Queries \cup {"moveIfValid"}) /\ ~raised

\* C4: in a state reached from construction by legal moves, getMoves(pos, true)
\* is getMoves(pos, false) without the moves after which some opposing candidate
\* lands on a square holding a king of the mover's team, in the same order.
C4_FilterExact ==
    OnlyLegalMoves =>
        \A pos \in OccupiedCells :
            Let(getMoves(G, pos, TRUE), LAMBDA c :
                c.err = "" =>
                    Let(getMoves(G, pos, FALSE), LAMBDA u :
                        /\ u.err = ""
                        /\ c.ret = SelectSeq(u.ret, LAMBDA m :
                                       ~LeavesKingCapturable(m, layout[pos].team))))

\* C4 witness: after an applied legal move some piece has a candidate that the
\* king-check removes.
C4_Witness ==
    /\ OnlyLegalMoves
    /\ last.op = "moveIfValid" /\ last.retBool
    /\ \E pos \in OccupiedCells :
          Let(getMoves(G, pos, TRUE), LAMBDA c :
              /\ c.err = ""
              /\ Len(c.ret) < Len(getMoves(G, pos, FALSE).ret))

\* C5: every cache entry equals what an uncached king-checked computation for
\* its origin returns on the current board, and setPiece and move return with
\* an empty cache.
C5_CacheCoherent ==
    /\ \A pos \in Cells(size) :
          cacheHas(cache, serialize(pos)) =>
              Let(getMoves(clearCache(G), pos, TRUE), LAMBDA f :
                  f.err = "" /\ f.ret = cacheGet(cache, serialize(pos)))
    /\ (last.op \in {"setPiece", "move"} /\ last.err = "") => cache = EmptyCache

\* C6: a moveIfValid that reports failure changes neither the board nor the
\* contents of the index (positions, ids, teams, flags).
C6_FailedMoveNoMutation ==
    [][ (last'.op = "moveIfValid" /\ last'.err = "" /\ ~last'.retBool)
          => (layout' = layout /\ Contents(pois') = Contents(pois)) ]_vars

\* b is the piece a (the same id and team, no flag gained), or both are null.
SamePiece(a, b) ==
    IF a = Null THEN b = Null
    ELSE b # Null /\ b.id = a.id /\ b.team = a.team /\ b.flags \subseteq a.flags

\* C7: move with distinct in-bounds src and dst returns the prior occupant of dst;
\* afterwards dst holds the piece that was at src, src is empty and every other
\* cell is unchanged.
C7_MoveRelocates ==
    [][ (last'.op = "move" /\ last'.err = "" /\ last'.src # last'.dst)
          => /\ last'.retPiece = layout[last'.dst]
             /\ SamePiece(layout[last'.src], layout'[last'.dst])
             /\ layout'[last'.src] = Null
             /\ \A c \in Cells(size) \ { last'.src, last'.dst } : layout'[c] = layout[c]
      ]_vars

\* C7 witness: a move captured a piece.
C7_Witness ==
    /\ last.op = "move" /\ last.err = "" /\ last.src # last.dst
    /\ last.retPiece # Null
    /\ layout[last.dst] # Null

\* C8: a move that raises OutOfBounds leaves board and index as they were.
C8_MoveAllOrNothing ==
    [][ (last'.op = "move" /\ last'.err # "")
          => (layout' = layout /\ pois' = pois) ]_vars

\* A candidate of the pawn at pos that advances two ranks.
OffersDoubleStep(pos) ==
    \E kingCheck \in BOOLEAN :
        Let(getMoves(G, pos, kingCheck), LAMBDA r :
            /\ r.err = ""
            /\ \E i \in 1..Len(r.ret) :
                  r.ret[i].dst.y - pos.y \in {2, -2})

\* A pawn without flag 0 is not offered the two-square step.
MovedPawnsStepOnce ==
    \A c \in OccupiedCells :
        (layout[c].id = "P" /\ ~HasFlag0(layout[c])) => ~OffersDoubleStep(c)

\* move clears flag 0 of the piece it relocates, and no call other than setPiece
\* brings a piece with flag 0 to a cell.
MoveClearsFlag0 ==
    /\ (last'.op = "move" /\ last'.err = "" /\ HasFlag0(layout[last'.src]))
          => ~HasFlag0(layout'[last'.dst])
    /\ last'.op # "setPiece"
          => \A c \in Cells(size) : HasFlag0(layout'[c]) => layout'[c] = layout[c]

\* A query leaves every piece with flag 0 on its cell, with its flag.
QueryKeepsFlag0 ==
    last'.op \in Queries
        => \A c \in Cells(size) : HasFlag0(layout[c]) => layout'[c] = layout[c]

\* C9: move clears flag 0 of the piece it relocates, so a pawn that was moved is
\* never again offered the two-square step, while a pawn that was not moved
\* keeps flag 0 whatever queries are run.
C9_FirstMoveFlag ==
    /\ []MovedPawnsStepOnce
    /\ [][MoveClearsFlag0 /\ QueryKeepsFlag0]_vars

\* C10: after move calls with in-bounds coordinates (and queries in between) the
\* index has as many entries as the board has non-null cells.
C10_CountsAgree ==
    (used \subseteq ({"move"} \cup Queries) /\ ~raised)
        => Len(pois) = Cardinality(OccupiedCells)

\* The elements of a sequence.
Range(seq) == { seq[i] : i \in 1..Len(seq) }

\* The cells whose occupant belongs to the team.
TeamCells(team) == { c \in OccupiedCells : layout[c].team = team }

\* C11: after setPiece and move calls, getMovesForTeam(team, k) holds exactly the
\* moves of getMoves(pos, k) of the cells whose occupant belongs to the team.
C11_TeamMovesComplete ==
    (used \subseteq {"setPiece", "move"} /\ ~raised) =>
        \A team \in {0, 1}, k \in BOOLEAN :
            (\A c \in TeamCells(team) : getMoves(G, c, k).err = "") =>
                Let(getMovesForTeam(G, team, k), LAMBDA r :
                    /\ r.err = ""
                    /\ Range(r.ret) =
                          UNION { Range(getMoves(G, c, k).ret) : c \in TeamCells(team) })

\* The move names a position off the board or an empty source cell.
IllegalShape(src, dst) ==
    \/ src \notin Cells(size)
    \/ dst \notin Cells(size)
    \/ layout[src] = Null

\* C12: moveIfValid and isValidMove report failure and do not raise for a move
\* whose source or destination is out of bounds or whose source cell is empty.
C12_IllegalMoveNoRaise ==
    [][ (last'.op \in {"moveIfValid", "isValidMove"}
            /\ IllegalShape(last'.src, last'.dst))
          => (last'.err = "" /\ ~last'.retBool) ]_vars

\* C13: a move query for a piece whose own id has a rule does not raise, whatever
\* other pieces stand on the board.
C13_MissingRuleLocal ==
    [][ (last'.op = "getMoves" /\ last'.src \in Cells(size)
            /\ layout[last'.src] # Null
            /\ layout[last'.src].id \in DOMAIN pieceDict)
          => last'.err = "" ]_vars

\* The call repeats the previous call, a move query that returned.
RepeatsQuery ==
    /\ last.op \in {"getMoves", "getMovesForTeam"}
    /\ last.err = ""
    /\ last'.op = last.op
    /\ last'.src = last.src
    /\ last'.team = last.team
    /\ last'.kingCheck = last.kingCheck

\* C15: a move query repeated with no setPiece or move in between returns the
\* same moves in the same order.
C15_RepeatedQueryEqual ==
    [][ RepeatsQuery => (last'.err = "" /\ last'.retMoves = last.retMoves) ]_vars

\* C15 witness: a king-checked team query was repeated and returned moves.
C15_Witness ==
    /\ ops = 2
    /\ used = {"getMovesForTeam"}
    /\ last.kingCheck /\ last.err = ""
    /\ Len(last.retMoves) > 1
    /\ \A i \in 1..Len(last.retMoves) : cacheHas(cache, serialize(last.retMoves[i].src))

\* C14: getPiece and setPiece raise OutOfBounds exactly for a position with a
\* component outside the board; otherwise getPiece returns the occupant and
\* setPiece the prior occupant; a setPiece that raises leaves board and index.
C14_BoundsChecked ==
    [][ /\ last'.op = "getPiece" =>
              IF last'.src \in Cells(size)
              THEN last'.err = "" /\ last'.retPiece = layout[last'.src]
                     /\ layout' = layout /\ pois' = pois
              ELSE last'.err = OutOfBounds
        /\ last'.op = "setPiece" =>
              IF last'.src \in Cells(size)
              THEN last'.err = "" /\ last'.retPiece = layout[last'.src]
                     /\ layout'[last'.src] = last'.piece
              ELSE last'.err = OutOfBounds /\ layout' = layout /\ pois' = pois
      ]_vars

\* C14 witness: setPiece raised for a position off the board on the w axis after
\* an earlier setPiece replaced a piece.
C14_Witness ==
    /\ ops = 2
    /\ used = {"setPiece"}
    /\ last.err = OutOfBounds
    /\ last.src.w = size.w
    /\ \E c \in OccupiedCells : layout[c] \in PieceInputs

DefaultGame == Game(DefaultInput, << >>)

\* The board is the default start and no move was applied.
AtDefaultStart == layout = DefaultGame.layout

\* C16: on the default start getMovesForTeam(0) and getMovesForTeam(1) return
\* 20 moves each.
C16_DefaultTwentyMoves ==
    [][ (AtDefaultStart /\ last'.op = "getMovesForTeam" /\ last'.kingCheck)
          => (last'.err = "" /\ Len(last'.retMoves) = 20) ]_vars

\* C16 witness: both counts were taken on the default start.
C16_Witness ==
    /\ AtDefaultStart
    /\ last.op = "getMovesForTeam" /\ last.team = 1 /\ last.err = ""
    /\ Len(last.retMoves) > 0

\* The first call, moveIfValid, applied the step of the pawn a2 of the default
\* start to a3.
AfterPawnStep ==
    /\ ops = 1
    /\ last.op = "moveIfValid" /\ last.retBool
    /\ last.src = PawnPos /\ last.dst = Vec(0, 2, 0, 0)
    /\ \A c \in Cells(size) \ { PawnPos, Vec(0, 2, 0, 0) } :
          layout[c] = DefaultGame.layout[c]

\* C17: after moveIfValid applied (0,1) -> (0,2) on the default start,
\* getMovesForTeam(0) returns 19 moves.
C17_NineteenAfterPawnStep ==
    [][ (AfterPawnStep /\ last'.op = "getMovesForTeam" /\ last'.team = 0
            /\ last'.kingCheck)
          => (last'.err = "" /\ Len(last'.retMoves) = 19) ]_vars

\* C17 witness: the count was taken after the applied pawn step.
C17_Witness ==
    /\ ops = 2
    /\ layout[Vec(0, 2, 0, 0)] = Piece("P", 0, {})
    /\ layout[PawnPos] = Null
    /\ last.op = "getMovesForTeam" /\ last.team = 0 /\ last.err = ""
    /\ Len(last.retMoves) > 0

\* C18 as stated: on the default start getMoves for the knight at (1,0) returns
\* the one move to (2,2).
C18_KnightOneMoveAtStart ==
    [][ (AtDefaultStart /\ last'.op = "getMoves" /\ last'.src = KnightPos)
          => last'.retMoves = << Move(KnightPos, Vec(2, 2, 0, 0)) >> ]_vars

\* C18: on the default start getMoves for the knight at (1,0) returns the moves
\* to (2,2) and (0,2), in this order; once the pawn stepped to (0,2) it returns
\* the one move to (2,2).
C18_KnightMoves ==
    [][ (last'.op = "getMoves" /\ last'.src = KnightPos) =>
          /\ AtDefaultStart =>
                last'.retMoves = << Move(KnightPos, Vec(2, 2, 0, 0)),
                                    Move(KnightPos, Vec(0, 2, 0, 0)) >>
          /\ AfterPawnStep =>
                last'.retMoves = << Move(KnightPos, Vec(2, 2, 0, 0)) >> ]_vars

\* C18 witness: the knight was queried after the pawn stepped to (0,2).
C18_Witness ==
    /\ ops = 2
    /\ layout[Vec(0, 2, 0, 0)] = Piece("P", 0, {})
    /\ last.op = "getMoves" /\ last.src = KnightPos /\ last.err = ""
    /\ Len(last.retMoves) = 1

\* C19: isValidMove(m, k) is true exactly when getMoves(m.src, k) holds a move
\* with m's source and destination coordinates; on the default start it is true
\* for (1,0) -> (2,2) and false for (1,0) -> (3,3).
C19_ValidIffListed ==
    [][ (last'.op = "isValidMove" /\ last'.err = "") =>
          /\ last'.retBool <=>
                \E m \in Range(getMoves(G, last'.src, last'.kingCheck).ret) :
                    /\ m.src.x = last'.src.x /\ m.src.y = last'.src.y
                    /\ m.src.z = last'.src.z /\ m.src.w = last'.src.w
                    /\ m.dst.x = last'.dst.x /\ m.dst.y = last'.dst.y
                    /\ m.dst.z = last'.dst.z /\ m.dst.w = last'.dst.w
          /\ (AtDefaultStart /\ last'.src = KnightPos) =>
                /\ last'.dst = Vec(2, 2, 0, 0) => last'.retBool
                /\ last'.dst = Vec(3, 3, 0, 0) => ~last'.retBool ]_vars

\* C19 witness: the knight's move to (2,2) was validated on the default start.
C19_Witness ==
    /\ AtDefaultStart
    /\ last.op = "isValidMove" /\ last.src = KnightPos
    /\ last.dst = Vec(2, 2, 0, 0) /\ last.retBool

\* C20: on the layout 5rk1,1N3ppp,8,2q5,1B6,4RP2,4Q1PP,5RK1 getMovesForTeam(0)
\* returns 31 moves and getMovesForTeam(1) returns 28.
C20_Game1Counts ==
    [][ (layout = Game(Game1Input, << >>).layout /\ last'.op = "getMovesForTeam"
            /\ last'.kingCheck)
          => /\ last'.err = ""
             /\ Len(last'.retMoves) = (IF last'.team = 0 THEN 31 ELSE 28) ]_vars

\* C20 witness: the count for team 1 was taken on that layout.
C20_Witness ==
    /\ layout = Game(Game1Input, << >>).layout
    /\ last.op = "getMovesForTeam" /\ last.team = 1 /\ last.err = ""
    /\ Len(last.retMoves) > 0

\* a comes before b in the nested order: w outermost, then z, then y, then x.
Before(a, b) ==
    \/ a.w < b.w
    \/ a.w = b.w /\ a.z < b.z
    \/ a.w = b.w /\ a.z = b.z /\ a.y < b.y
    \/ a.w = b.w /\ a.z = b.z /\ a.y = b.y /\ a.x < b.x

\* C21: forPiece calls the callback once for every in-bounds cell, in the nested
\* order w, z, y, x (each ascending from 0), with the cell's coordinate and its
\* current occupant; the number of calls is size.x * size.y * size.z * size.w.
C21_ForPieceOrder ==
    last.op = "forPiece" =>
        /\ last.err = ""
        /\ Len(last.retVisits) = size.x * size.y * size.z * size.w
        /\ { last.retVisits[i].loc : i \in 1..Len(last.retVisits) } = Cells(size)
        /\ \A i \in 1..Len(last.retVisits) :
              last.retVisits[i].piece = layout[last.retVisits[i].loc]
        /\ \A i \in 1..Len(last.retVisits), j \in 1..Len(last.retVisits) :
              i < j => Before(last.retVisits[i].loc, last.retVisits[j].loc)
        /\ last.retVisits[1].loc = Vec(0, 0, 0, 0)

\* C21 witness: forPiece ran on a board with two z-layers and two w-layers after
\* a move, and met a piece in the last w-layer.
C21_Witness ==
    /\ ops = 2
    /\ used = {"move", "forPiece"}
    /\ last.op = "forPiece"
    /\ size.z = 2 /\ size.w = 2
    /\ \E i \in 1..Len(last.retVisits) :
          last.retVisits[i].piece # Null /\ last.retVisits[i].loc.w = 1

\* Budgets a leaf step inherits, and directions of a ray.
RayBudgets == { [repeat |-> r, attack |-> a] : r \in {1, 2, Infinity}, a \in {0, 1, 2} }

RayDirections == { Vec(0,1,0,0), Vec(0,-1,0,0), Vec(1,0,0,0), Vec(1,1,0,0) }

\* The number of moves of the list whose destination is occupied.
Captures(moves) == Cardinality({ i \in 1..Len(moves) : layout[moves[i].dst] # Null })

\* C22: along one ray of a leaf step no more moves onto enemy-occupied cells are
\* recorded than the inherited attack allowance; with allowance 0 (the straight
\* pushes of the built-in pawn) none is.
C22_AttackBoundsCaptures ==
    /\ \A c \in OccupiedCells, d \in RayDirections, s \in RayBudgets :
          Captures(evaluatePath(G, layout[c], c, [direction |-> d], s)) <= s.attack
    /\ \A c \in OccupiedCells :
          (layout[c].id = "P") =>
              \A m \in Range(getMoves(G, c, FALSE).ret) :
                  m.dst.x = c.x => layout[m.dst] = Null

\* The cell i steps from c in direction d.
Along(c, d, i) == Vec(c.x + i * d.x, c.y + i * d.y, c.z + i * d.z, c.w + i * d.w)

\* The ray from the occupied cell c in direction d with the budgets s.
Ray(c, d, s) == evaluatePath(G, layout[c], c, [direction |-> d], s)

\* The number of occupied cells among the first n destinations of the list.
Met(moves, n) == Cardinality({ j \in 1..n : layout[moves[j].dst] # Null })

Abs(n) == IF n < 0 THEN -n ELSE n

Max2(a, b) == IF a > b THEN a ELSE b

\* The number of steps of a move along a rank, file or diagonal.
Steps(m) ==
    Max2(Max2(Abs(m.dst.x - m.src.x), Abs(m.dst.y - m.src.y)),
         Max2(Abs(m.dst.z - m.src.z), Abs(m.dst.w - m.src.w)))

\* The cells a sliding move passes before its destination.
Passed(m) ==
    { Vec(m.src.x + j * ((m.dst.x - m.src.x) \div Steps(m)),
          m.src.y + j * ((m.dst.y - m.src.y) \div Steps(m)),
          m.src.z + j * ((m.dst.z - m.src.z) \div Steps(m)),
          m.src.w + j * ((m.dst.w - m.src.w) \div Steps(m))) : j \in 1..(Steps(m) - 1) }

\* C23 as stated: a ray stops at the first occupied cell it meets, whatever the
\* repeat count and attack allowance: no candidate lies beyond an occupied cell.
C23_RayStopsAtFirstPiece ==
    \A c \in OccupiedCells, d \in RayDirections, s \in RayBudgets :
        Let(Ray(c, d, s), LAMBDA moves :
            \A i \in 1..Len(moves) : Met(moves, i - 1) = 0)

\* C23: the candidates of a ray are the cells 1, 2, ... steps from the origin; none
\* is ally-occupied, so the ray ends before the first ally; with an attack
\* allowance a >= 1 fewer than a occupied cells lie before any candidate, so the
\* ray ends at the a-th enemy; the built-in sliders (allowance 1) pass over
\* empty cells only.
C23_RayStops ==
    /\ \A c \in OccupiedCells, d \in RayDirections, s \in RayBudgets :
          Let(Ray(c, d, s), LAMBDA moves :
              \A i \in 1..Len(moves) :
                  /\ moves[i].src = c
                  /\ moves[i].dst = Along(c, d, i)
                  /\ i <= s.repeat
                  /\ layout[moves[i].dst] = Null
                        \/ layout[moves[i].dst].team # layout[c].team
                  /\ s.attack >= 1 => Met(moves, i - 1) < s.attack)
    /\ \A c \in OccupiedCells :
          layout[c].id \in {"R", "B", "Q", "S"} =>
              \A m \in Range(getMoves(G, c, FALSE).ret) :
                  Cardinality({ p \in Passed(m) : layout[p] # Null })
                      < (IF layout[c].id = "S" THEN 2 ELSE 1)

\* C23 witness: the slider S (attack allowance 2) was offered the captures of
\* two enemy pieces on one ray, the second beyond the first.
C23_Witness ==
    /\ last.op = "getMoves" /\ last.err = ""
    /\ last.src \in OccupiedCells
    /\ layout[last.src].id = "S"
    /\ Len(last.retMoves) = 2
    /\ layout[last.retMoves[1].dst] # Null
    /\ layout[last.retMoves[2].dst] # Null
    /\ last.retMoves[1].dst \in Passed(last.retMoves[2])

\* The node without the branches that name the type id.
WithoutSelf(path, id) ==
    IF Has(path, "branches")
    THEN [path EXCEPT !.branches =
             SelectSeq(path.branches, LAMBDA b : ~(Has(b, "ref") /\ b.ref = id))]
    ELSE path

\* C24: a branch that names the moving piece's own type contributes no move and
\* leaves the moves of its sibling branches: the piece has the moves of its rule
\* without that branch.
C24_SelfReferenceLocal ==
    \A c \in OccupiedCells :
        Let(getMoves(G, c, FALSE), LAMBDA r :
            r.err = "" =>
                r.ret = rootLoop(G, layout[c], c,
                                 [j \in 1..Len(pieceDict[layout[c].id]) |->
                                     WithoutSelf(pieceDict[layout[c].id][j], layout[c].id)],
                                 1))

\* The stats object getMoves creates for a root alternative.
FreshStats == [repeat |-> Unset, attack |-> Unset]

\* Budgets an ancestor node sets.
OuterBudgets ==
    { [repeat |-> 1, attack |-> 1], [repeat |-> 2, attack |-> 0],
      [repeat |-> Infinity, attack |-> 2] }

\* Budgets a descendant node carries.
InnerBudgets == { [repeat |-> Infinity, attack |-> 2], [repeat |-> 1, attack |-> 0] }

\* n is one single step from c along a rook direction (one axis changes by 1) or
\* a bishop direction (two axes change by 1).
OneStep(c, n) ==
    /\ Abs(n.x - c.x) <= 1 /\ Abs(n.y - c.y) <= 1
    /\ Abs(n.z - c.z) <= 1 /\ Abs(n.w - c.w) <= 1
    /\ Abs(n.x - c.x) + Abs(n.y - c.y) + Abs(n.z - c.z) + Abs(n.w - c.w) \in {1, 2}

\* C25: a budget set by an ancestor node is not overridden by a descendant, be it
\* a nested node or a node reached through a type reference; so the unchecked
\* candidates of the built-in king are exactly the in-bounds squares without an
\* ally one single step away along a rook or bishop direction.
C25_BudgetsOutsideIn ==
    /\ \A c \in OccupiedCells, d \in {Vec(0,1,0,0), Vec(1,0,0,0)}, s \in OuterBudgets :
          /\ \A t \in InnerBudgets :
                evaluatePath(G, layout[c], c,
                             [repeat |-> s.repeat, attack |-> s.attack,
                              branches |-> << [repeat |-> t.repeat, attack |-> t.attack,
                                               direction |-> d] >>],
                             FreshStats)
                  = Ray(c, d, s)
          /\ layout[c].id # "R" =>
                evaluatePath(G, layout[c], c,
                             [repeat |-> s.repeat, attack |-> s.attack,
                              branches |-> << Ref("R") >>],
                             FreshStats)
                  = evaluatePath(G, layout[c], c,
                                 [rook[1] EXCEPT !.repeat = s.repeat, !.attack = s.attack],
                                 FreshStats)
    /\ \A c \in OccupiedCells :
          layout[c].id = "K" =>
              Let(getMoves(G, c, FALSE), LAMBDA r :
                  /\ r.err = ""
                  /\ { r.ret[i].dst : i \in 1..Len(r.ret) } =
                        { n \in Cells(size) :
                            /\ OneStep(c, n)
                            /\ layout[n] = Null \/ layout[n].team # layout[c].team }
                  /\ \A i \in 1..Len(r.ret) : r.ret[i].src = c)

\* C25 witness: the unchecked candidates of a king with two free squares in line
\* were returned, and the square two steps away is not among them.
C25_Witness ==
    /\ last.op = "getMoves" /\ ~last.kingCheck /\ last.err = ""
    /\ last.src \in OccupiedCells
    /\ layout[last.src].id = "K"
    /\ Len(last.retMoves) > 0
    /\ \E d \in {Vec(0,1,0,0), Vec(0,-1,0,0), Vec(1,0,0,0), Vec(-1,0,0,0)} :
          /\ Along(last.src, d, 2) \in Cells(size)
          /\ layout[Along(last.src, d, 1)] = Null
          /\ layout[Along(last.src, d, 2)] = Null
          /\ Along(last.src, d, 1) \in { last.retMoves[i].dst : i \in 1..Len(last.retMoves) }
          /\ Along(last.src, d, 2) \notin { last.retMoves[i].dst : i \in 1..Len(last.retMoves) }

\* The square a `piece` or `enemy` condition with offset v looks at, for the
\* piece on c and a node with direction d (none: the zero vector).
Looked(c, v, node) ==
    IF Has(node, "direction") THEN add(add(c, v), node.direction) ELSE add(c, v)

\* What a condition tests, before its inversion bit: each field it carries.
Tests(con, c, node) ==
    /\ Has(con, "team") => layout[c].team = con.team
    /\ Has(con, "flag") => con.flag \in layout[c].flags
    /\ Has(con, "piece") =>
          /\ Looked(c, con.piece, node) \in Cells(size)
          /\ layout[Looked(c, con.piece, node)] # Null
    /\ Has(con, "enemy") =>
          /\ Looked(c, con.enemy, node) \in Cells(size)
          /\ layout[Looked(c, con.enemy, node)] # Null
          /\ layout[Looked(c, con.enemy, node)].team # layout[c].team

\* The condition holds after its own inversion bit.
HoldsFor(con, c, node) ==
    IF Has(con, "inverted") /\ con.inverted THEN ~Tests(con, c, node) ELSE Tests(con, c, node)

\* The node without its condition list.
Unconditional(node) == [f \in (DOMAIN node) \ {"condition"} |-> node[f]]

\* Nodes with conditions: the root alternatives of the pawn, their branches, and
\* nodes that mix inverted and plain conditions.
ConditionNodes ==
    { pawn[1], pawn[2] }
      \cup { pawn[1].branches[i] : i \in 3..7 }
      \cup { pawn[2].branches[i] : i \in 3..7 }
      \cup { [repeat |-> 1, attack |-> 1, direction |-> Vec(0,1,0,0),
              condition |-> << [inverted |-> TRUE, team |-> 0], [flag |-> 0] >>],
             [repeat |-> 2, attack |-> 1, direction |-> Vec(0,-1,0,0),
              condition |-> << [inverted |-> TRUE, enemy |-> Vec(0,0,0,0)],
                               [inverted |-> TRUE, flag |-> 1] >>],
             [repeat |-> 1, attack |-> 1,
              condition |-> << [piece |-> Vec(1,0,0,0)], [inverted |-> FALSE, team |-> 1] >>,
              branches |-> << Dir(0,1,0,0), Dir(0,-1,0,0) >>] }

\* C26: a node's condition list is a conjunction of its conditions, each after
\* its own inversion bit: if all hold the node yields the moves of the node
\* without conditions, otherwise it yields none.
C26_ConditionsConjoin ==
    \A c \in OccupiedCells, node \in ConditionNodes, s \in {FreshStats, [repeat |-> 1, attack |-> Unset]} :
        evaluatePath(G, layout[c], c, node, s) =
            IF \A i \in 1..Len(node.condition) : HoldsFor(node.condition[i], c, node)
            THEN evaluatePath(G, layout[c], c, Unconditional(node), s)
            ELSE << >>

\* C26 witness: a pawn that was moved (flag 0 cleared) stands with two free
\* squares ahead: of the two conditions of the double step only the inverted
\* one holds, and the query for the pawn returned no double step.
C26_Witness ==
    /\ last.op = "getMoves" /\ last.err = "" /\ ~last.kingCheck
    /\ last.src \in OccupiedCells
    /\ layout[last.src] = Piece("P", 1, {})
    /\ Along(last.src, Vec(0,-1,0,0), 2) \in Cells(size)
    /\ layout[Along(last.src, Vec(0,-1,0,0), 1)] = Null
    /\ layout[Along(last.src, Vec(0,-1,0,0), 2)] = Null
    /\ Len(last.retMoves) > 0
    /\ \A i \in 1..Len(last.retMoves) :
          last.retMoves[i].dst # Along(last.src, Vec(0,-1,0,0), 2)

\* The destinations of the unchecked candidates of a piece of the given type and
\* team placed on the cell c of the current board.
PlacedDsts(id, team, c) ==
    Let(getMoves(setPiece(G, c, Piece(id, team, {})).g, c, FALSE), LAMBDA r :
        IF r.err = "" THEN { r.ret[i].dst : i \in 1..Len(r.ret) } ELSE { c })

\* Number of calls after which pieces are placed on every square of the board.
MaxPlacedOps == 1

\* C27: on every board and square the unchecked candidate destinations of a
\* queen are those of a rook together with those of a bishop of the same team
\* on that square.
C27_QueenIsRookAndBishop ==
    ops <= MaxPlacedOps =>
        \A c \in Cells(size), team \in {0, 1} :
            PlacedDsts("Q", team, c) = PlacedDsts("R", team, c) \cup PlacedDsts("B", team, c)

\* C27 witness: the candidates of a queen were returned on the board with two
\* z-layers and two w-layers; among them a square a rook reaches and a bishop
\* does not, and a square a bishop reaches and a rook does not.
C27_Witness ==
    /\ last.op = "getMoves" /\ last.err = "" /\ ~last.kingCheck
    /\ last.src \in OccupiedCells
    /\ layout[last.src].id = "Q"
    /\ size.w = 2
    /\ ops <= MaxPlacedOps
    /\ \E i \in 1..Len(last.retMoves), j \in 1..Len(last.retMoves) :
          /\ last.retMoves[i].dst \in PlacedDsts("R", layout[last.src].team, last.src)
          /\ last.retMoves[i].dst \notin PlacedDsts("B", layout[last.src].team, last.src)
          /\ last.retMoves[j].dst \in PlacedDsts("B", layout[last.src].team, last.src)
          /\ last.retMoves[j].dst \notin PlacedDsts("R", layout[last.src].team, last.src)
          /\ last.retMoves[j].dst.w # last.src.w

\* C28: no move query exhausts the call stack: getMoves comes back after a
\* recursion bounded by the depth of the rule tree, also when the types the rules
\* refer to form a cycle.
C28_GetMovesTerminates ==
    [][ last'.op = "getMoves" => last'.err # StackExhausted ]_vars

\* Every index entry records the piece instance the board holds at the entry's
\* position, with the same id, team and flags.
Agree(index, board) ==
    \A i \in 1..Len(index) :
        /\ index[i].live
        /\ index[i].pos \in DOMAIN board
        /\ board[index[i].pos] = index[i].piece

\* C29: a king-checked query that returns on a game whose index and board agree
\* leaves them agreeing: each index entry holds the instance the board holds at
\* that position, with the same flags.
C29_IndexAgreesWithBoard ==
    [][ (last'.op \in Queries /\ last'.kingCheck /\ last'.err = "" /\ Agree(pois, layout))
          => Agree(pois', layout') ]_vars

\* The candidates getMoves collects for the piece at pos before the king check.
Candidates(pos) == rootLoop(G, layout[pos], pos, pieceDict[layout[pos].id], 1)

\* The king check of the first k candidates has come back with the board and
\* the positions of the index as they were before the query.
RolledBack(f) == f.g.layout = layout /\ Positions(f.g.pois) = Positions(pois)

\* Candidate mov is simulated on game g: the board differs from the board before
\* the query at the two cells of mov only, and generating the other team's
\* replies (king-check disabled) applies no further move and simulates none.
OneHypotheticalMove(g, mov, team) ==
    Let(move(g, mov, FALSE).g, LAMBDA a :
        /\ \A c \in Cells(size) \ { mov.src, mov.dst } : a.layout[c] = layout[c]
        /\ Let(getMovesForTeam(a, IF team # 0 THEN 0 ELSE 1, FALSE), LAMBDA t :
               t.err = "" => t.g = a))

NotReentered(pos) ==
    Let(Candidates(pos), LAMBDA moves :
        \A k \in 1..Len(moves) :
            Let(filterLoop(G, moves, 1, k - 1, layout[pos].team), LAMBDA f :
                f.err = "" =>
                    /\ RolledBack(f)
                    /\ OneHypotheticalMove(f.g, moves[k], layout[pos].team)
                    /\ Let(putsKingInCheck(f.g, moves[k], layout[pos].team), LAMBDA r :
                           r.err = "" => RolledBack(r))))

\* C30: in a king-checked getMoves that simulates its candidates, each candidate
\* is simulated on the rolled-back board, exactly one hypothetical move is applied
\* while the replies are generated, reply generation (king-check disabled)
\* simulates nothing, and the move is rolled back before the next candidate.
C30_LegalityNotReentered ==
    [][ (last'.op = "getMoves" /\ last'.kingCheck /\ last'.err = ""
            /\ last'.src \in Cells(size) /\ layout[last'.src] # Null
            /\ ~cacheHas(cache, serialize(last'.src)))
          => NotReentered(last'.src) ]_vars

\* C30 witness: a king-checked getMoves on a board with an empty cache returned
\* two or more moves, each of them simulated and rolled back in turn.
C30_Witness ==
    /\ last.op = "getMoves" /\ last.kingCheck /\ last.err = ""
    /\ ops = 1
    /\ Len(last.retMoves) >= 2

\* The list getMoves computes for the occupied cell pos from the rule tree,
\* before any king check and without the cache.
Unfiltered(pos) == rootLoop(G, layout[pos], pos, pieceDict[layout[pos].id], 1)

\* C31: a query with king-check disabled leaves the cache as it was, and
\* getMoves(pos, false) returns the unfiltered list computed from the board
\* even when a filtered list for pos is cached; a king-checked getMoves that
\* returns keeps every entry cached for another origin and adds at most the
\* entry of its own origin.
C31_CacheUntouched ==
    [][ /\ (last'.op \in Queries /\ ~last'.kingCheck) => cache' = cache
        /\ (last'.op = "getMoves" /\ ~last'.kingCheck /\ last'.err = ""
               /\ last'.src \in Cells(size) /\ layout[last'.src] # Null)
             => last'.retMoves = Unfiltered(last'.src)
        /\ (last'.op = "getMoves" /\ last'.kingCheck /\ last'.err = "")
             => /\ \A e \in cache : e \in cache'
                /\ \A e \in cache' : e \in cache \/ e.key = serialize(last'.src) ]_vars

\* C31 witness: getMoves(pos, false) returned a list other than the filtered
\* list cached for pos, and the cached list is still there.
C31_Witness ==
    /\ last.op = "getMoves" /\ ~last.kingCheck /\ last.err = ""
    /\ cacheHas(cache, serialize(last.src))
    /\ last.retMoves # cacheGet(cache, serialize(last.src))

\* A king-checked getMoves has returned with two origins in the cache.
C31_TwoOrigins ==
    /\ last.op = "getMoves" /\ last.kingCheck /\ last.err = ""
    /\ \E e \in cache : e.key # serialize(last.src)

\* The rule of type id is a single reference to another type, with no budget
\* and no condition of its own.
PlainReference(id) ==
    /\ id \in DOMAIN pieceDict
    /\ Len(pieceDict[id]) = 1
    /\ DOMAIN pieceDict[id][1] = { "branches" }
    /\ Len(pieceDict[id][1].branches) = 1
    /\ Has(pieceDict[id][1].branches[1], "ref")

Referenced(id) == pieceDict[id][1].branches[1].ref

\* The game with the piece on cell c turned into a piece of type id, of the
\* same team and flags.
Retyped(c, id) == [G EXCEPT !.layout[c] = [@ EXCEPT !.id = id]]

\* C32: a piece whose rule is a single unbudgeted, unconditioned reference to
\* type T has the moves of a T piece of the same team and flags on the same
\* square (each root alternative of T starts from the budgets inherited at the
\* referencing node).
C32_ReferenceInheritsOnly ==
    \A c \in Cells(size) :
        (layout[c] # Null /\ PlainReference(layout[c].id)
            /\ Referenced(layout[c].id) \in DOMAIN pieceDict)
          => Let(getMoves(G, c, FALSE), LAMBDA u :
             Let(getMoves(Retyped(c, Referenced(layout[c].id)), c, FALSE), LAMBDA t :
                 (u.err = "" /\ t.err = "") => u.ret = t.ret))

\* The moves of the list start at pos and end on a cell of the board other than
\* pos that holds no piece of the team of the piece on pos.
ProperCandidates(moves, pos) ==
    \A i \in 1..Len(moves) :
        /\ moves[i].src = pos
        /\ moves[i].dst \in Cells(size)
        /\ moves[i].dst # pos
        /\ layout[moves[i].dst] = Null \/ layout[moves[i].dst].team # layout[pos].team

\* C33: every candidate getMoves(pos, k) returns starts at pos and ends in bounds,
\* off pos and not on a piece of the mover's own team (so that a successful
\* moveIfValid removes no piece of the mover's team).
C33_CandidatesProper ==
    \A pos \in OccupiedCells, k \in BOOLEAN :
        Let(getMoves(G, pos, k), LAMBDA r : r.err = "" => ProperCandidates(r.ret, pos))

\* C34: after any sequence of moveIfValid calls (successful, refused or raising)
\* and getMoves / getMovesForTeam queries, the positions of the index are the
\* occupied cells of the board, one entry for each.
C34_IndexPositionsAreOccupied ==
    (used \subseteq {"moveIfValid", "getMoves", "getMovesForTeam"}) =>
        /\ Range(Positions(pois)) = OccupiedCells
        /\ Len(pois) = Cardinality(OccupiedCells)

\* C34 witness: a piece was captured by a successful moveIfValid that followed a
\* king-checked query.
C34_Witness ==
    /\ used = {"moveIfValid", "getMoves"}
    /\ last.op = "moveIfValid" /\ last.err = "" /\ last.retBool
    /\ last.retPiece # Null

\* C35: a move that returns leaves the relocated piece with the flags it had,
\* flag 0 apart, and every cell other than its source and destination as it was.
C35_MoveKeepsOtherFlags ==
    [][ (last'.op = "move" /\ last'.err = "" /\ layout[last'.src] # Null)
          => /\ layout'[last'.dst].flags = layout[last'.src].flags \ {0}
             /\ \A c \in Cells(size) \ { last'.src, last'.dst } : layout'[c] = layout[c] ]_vars

\* C36: a move whose in-bounds source cell is empty, or whose source is its
\* destination, leaves every cell of the board and the contents of the index
\* as they were.
C36_IdleMoveChangesNothing ==
    [][ (last'.op = "move" /\ last'.src \in Cells(size) /\ last'.dst \in Cells(size)
            /\ (layout[last'.src] = Null \/ last'.src = last'.dst))
          => (layout' = layout /\ Contents(pois') = Contents(pois)) ]_vars

\* C37: in every state reached by setPiece, move and getMoves calls the rule
\* dictionary is the one the constructor merged: each custom rule under its id
\* (in place of a built-in rule of that id), each other built-in rule as it is
\* by default, and nothing else; a knight moves by the custom rule for N.
C37_RulesMergedAndKept ==
    /\ DOMAIN pieceDict = DOMAIN initPieceDict \cup DOMAIN CustomRules
    /\ \A id \in DOMAIN CustomRules : pieceDict[id] = CustomRules[id]
    /\ \A id \in DOMAIN initPieceDict \ DOMAIN CustomRules :
          pieceDict[id] = initPieceDict[id]
    /\ (last.op = "getMoves" /\ last.err = "" /\ last.src \in OccupiedCells
           /\ layout[last.src].id = "N")
         => \A i \in 1..Len(last.retMoves) :
                last.retMoves[i].dst = add(last.src, Vec(1, 0, 0, 0))

\* C37 witness: a knight placed on the board was offered the one step of the
\* custom rule for N, on a game whose dictionary holds a built-in rule for N.
C37_Witness ==
    /\ used = {"setPiece", "getMoves"}
    /\ last.op = "getMoves" /\ last.err = "" /\ last.src \in OccupiedCells
    /\ layout[last.src].id = "N"
    /\ Len(last.retMoves) = 1
    /\ "N" \in DOMAIN initPieceDict /\ initPieceDict["N"] # pieceDict["N"]

====
